---- MODULE Spec2Model ----
(***************************************************************************)
(* A model of pushwoosh.py: the Pushwoosh client (credentials, the three   *)
(* remote operations push / register / unregister), the Notification       *)
(* payload builder, the HTTPS transport (_request) and the decoding of the *)
(* JSON response envelope.                                                 *)
(*                                                                         *)
(* Python values are modelled as strings; None is the token "None".        *)
(* A dict is a function from key strings to values, a list a sequence.     *)
(***************************************************************************)
EXTENDS Integers, Sequences, FiniteSets, TLC

VARIABLES
    username, password, application_id, \* the fields of the Pushwoosh instance
    ctor,         \* history: the arguments Pushwoosh.__init__ was called with
    http_client,  \* whether the interpreter has the submodule http.client loaded
    objs,         \* the Notification objects constructed so far
    built,        \* history: the payload of each Notification when constructed
    kwargs,       \* the arguments of the Notification constructor under study
    made,         \* <<>>, or <<the Notification made from kwargs>>
    last,         \* the most recent call of push / register / unregister
    ncalls        \* history: the number of calls made so far

vars == <<username, password, application_id, ctor, http_client, objs, built,
          kwargs, made, last, ncalls>>

-----------------------------------------------------------------------------
(* Bounds of the model *)

MaxLen == 2       \* length of the list passed to push
MaxCalls == 2     \* calls of push / register / unregister in one behaviour

(* Program constants *)

PUSH_OK == 200        \* push: "if status != 200"
REGISTER_OK == 103    \* register: "if status != 103"
UNREGISTER_OK == 200  \* unregister: "if status != 200"

None == "None"

-----------------------------------------------------------------------------
(* Python helpers *)

\* d[k] = v on a dict
Put(d, k, v) == [x \in (DOMAIN d) \cup {k} |-> IF x = k THEN v ELSE d[x]]

SeqsUpTo(S, n) == UNION {[1..m -> S] : m \in 0..n}

\* json.dumps of a scalar: None becomes null, a string stays itself
json_scalar(v) == IF v = None THEN "null" ELSE v

\* json.dumps of a flat dict
json_dict(d) == [k \in DOMAIN d |-> json_scalar(d[k])]

-----------------------------------------------------------------------------
(* Pushwoosh.Notification.__init__ *)

\* Python truthiness of the modelled values
Falsy(v) == v \in {None, "", "0", "[]", "{}"}

\* Variant: "if x:" in place of "if x is not None:", which drops a supplied
\* empty, zero or false value
Notification_init_truthy(a) ==
    LET p0 == [send_date |-> IF Falsy(a.send_date) THEN "now" ELSE a.send_date,
               content |-> a.content]
        opt(p, k) == IF ~Falsy(a[k]) THEN Put(p, k, a[k]) ELSE p
    IN  [payload |->
            opt(opt(opt(opt(opt(opt(opt(opt(p0, "devices"), "data"), "page_id"),
                "wp_type"), "wp_count"), "ios_badges"), "ios_sound"),
                "android_sound")]

Notification_init(a) ==
    LET p0 == [send_date |-> IF a.send_date = None THEN "now" ELSE a.send_date,
               content |-> a.content]
        p1 == IF a.devices # None THEN Put(p0, "devices", a.devices) ELSE p0
        p2 == IF a.data # None THEN Put(p1, "data", a.data) ELSE p1
        p3 == IF a.page_id # None THEN Put(p2, "page_id", a.page_id) ELSE p2
        p4 == IF a.wp_type # None THEN Put(p3, "wp_type", a.wp_type) ELSE p3
        p5 == IF a.wp_count # None THEN Put(p4, "wp_count", a.wp_count) ELSE p4
        p6 == IF a.ios_badges # None THEN Put(p5, "ios_badges", a.ios_badges) ELSE p5
        p7 == IF a.ios_sound # None THEN Put(p6, "ios_sound", a.ios_sound) ELSE p6
        p8 == IF a.android_sound # None
              THEN Put(p7, "android_sound", a.android_sound) ELSE p7
    IN  [payload |-> p8]

\* The optional parameters of the constructor, in the order of its signature
OptionalParams ==
    {"devices", "data", "page_id", "send_date", "wp_type", "wp_count",
     "ios_badges", "ios_sound", "android_sound"}

\* Every combination of unset (None), supplied-but-falsy and supplied values
AllKwargs ==
    [content : {"hello", "{en: hello}"},
     devices : {None, "[]", "[dev1, dev2]"},
     data : {None, "{}", "{k: v}"},
     page_id : {None, "0", "39"},
     send_date : {None, "", "2026-01-01 00:00"},
     wp_type : {None, "", "Tile"},
     wp_count : {None, "0", "3"},
     ios_badges : {None, "0", "5"},
     ios_sound : {None, "", "sound.wav"},
     android_sound : {None, "", "sound"}]

NoKwargs ==
    [content |-> "hello", devices |-> None, data |-> None, page_id |-> None,
     send_date |-> None, wp_type |-> None, wp_count |-> None,
     ios_badges |-> None, ios_sound |-> None, android_sound |-> None]

\* The constructor calls the client model draws from: content alone, and every
\* optional parameter supplied
NotifSamples ==
    {NoKwargs,
     [content |-> "{en: bye}", devices |-> "[dev1, dev2]", data |-> "{k: v}",
      page_id |-> "39", send_date |-> "", wp_type |-> "Tile", wp_count |-> "3",
      ios_badges |-> "5", ios_sound |-> "sound.wav", android_sound |-> "sound"]}

-----------------------------------------------------------------------------
(* What the network does to one call: the request fails before a response  *)
(* (DNS, TLS, connection refused), the response cannot be read, or a       *)
(* response arrives with an HTTP status and a raw body.                    *)

SERVER == "cp.pushwoosh.com"
BASE_URL == "https://cp.pushwoosh.com/json/1.2"

HttpStatuses == {200, 500}
StatusCodes == {PUSH_OK, REGISTER_OK, 400}
Message(s) == IF s = 400 THEN "Bad request" ELSE "OK"

\* A raw response body: bytes that are not JSON, JSON that is no object, or a
\* JSON object holding the keys in `keys`
Raw(kind, keys, s, m) ==
    [kind |-> kind, keys |-> keys, status_code |-> s, status_message |-> m]

NoRaw == Raw("none", {}, 0, "")

RawBodies ==
    {Raw("invalid", {}, 0, ""),
     Raw("array", {}, 0, ""),
     Raw("object", {}, 0, ""),
     Raw("object", {"status_code"}, PUSH_OK, ""),
     Raw("object", {"status_message"}, 0, "OK")}
    \cup {Raw("object", {"status_code", "status_message"}, s, Message(s)) :
            s \in StatusCodes}

Nets ==
    {[fail |-> "request", status |-> 0, raw |-> NoRaw],
     [fail |-> "getresponse", status |-> 0, raw |-> NoRaw]}
    \cup [fail : {"none"}, status : HttpStatuses, raw : RawBodies]

-----------------------------------------------------------------------------
(* Outcomes of a call *)

Return(s, m) == [kind |-> "return", exc |-> "", value |-> <<s, m>>]
Raise(e, v) == [kind |-> "raise", exc |-> e, value |-> v]

\* The exceptions the decoding of a response raises (json.loads and the two
\* subscriptions): the ParseError kind
ParseErrors == {"ValueError", "TypeError", "KeyError"}
\* The exceptions the transport raises: the TransportError kind
TransportErrors == {"OSError", "HTTPException"}

-----------------------------------------------------------------------------
(* Pushwoosh._request: one HTTPSConnection, one request, one response.     *)
(* conns counts the connections opened, requests holds the requests        *)
(* handed to connection.request, ret is <<>> or <<the returned pair>>.     *)

_request(method, body, url, net) ==
    IF ~http_client
    THEN \* http.client is an attribute of http only once the submodule is loaded
         [exc |-> "AttributeError", conns |-> 0, requests |-> <<>>, ret |-> <<>>]
    ELSE LET req == [server |-> SERVER, method |-> method, url |-> url,
                     body |-> body,
                     headers |-> [content_type |-> "application/json"]]
         IN  IF net.fail = "request"
             THEN [exc |-> "OSError", conns |-> 1, requests |-> <<req>>,
                   ret |-> <<>>]
             ELSE IF net.fail = "getresponse"
             THEN [exc |-> "HTTPException", conns |-> 1, requests |-> <<req>>,
                   ret |-> <<>>]
             ELSE [exc |-> "none", conns |-> 1, requests |-> <<req>>,
                   ret |-> <<<<net.status, net.raw>>>>]

\* Variant: "if status >= 400" in place of "if status != expected", which takes
\* every code below 400 for a success
interpret_below_400(expected, raw_response) ==
    IF raw_response.kind = "invalid" THEN Raise("ValueError", <<>>)
    ELSE IF raw_response.kind # "object" THEN Raise("TypeError", <<>>)
    ELSE IF "status_code" \notin raw_response.keys THEN Raise("KeyError", <<>>)
    ELSE IF "status_message" \notin raw_response.keys THEN Raise("KeyError", <<>>)
    ELSE LET status == raw_response.status_code
             response == raw_response.status_message
         IN  IF status >= 400
             THEN Raise("PushwooshFailure", <<status, response>>)
             ELSE Return(status, response)

\* Variant: the status is compared before status_message is read, with
\* decoded_json.get('status_message') as the message
interpret_status_first(expected, raw_response) ==
    IF raw_response.kind = "invalid" THEN Raise("ValueError", <<>>)
    ELSE IF raw_response.kind # "object" THEN Raise("TypeError", <<>>)
    ELSE IF "status_code" \notin raw_response.keys THEN Raise("KeyError", <<>>)
    ELSE LET status == raw_response.status_code
             response == IF "status_message" \in raw_response.keys
                         THEN raw_response.status_message ELSE None
         IN  IF status # expected
             THEN Raise("PushwooshFailure", <<status, response>>)
             ELSE Return(status, response)

\* json.loads(raw_response) (which takes the bytes read, as Python 3.6 and
\* later do), decoded_json['status_code'],
\* decoded_json['status_message'], and the comparison with the expected code
interpret(expected, raw_response) ==
    IF raw_response.kind = "invalid" THEN Raise("ValueError", <<>>)
    ELSE IF raw_response.kind # "object" THEN Raise("TypeError", <<>>)
    ELSE IF "status_code" \notin raw_response.keys THEN Raise("KeyError", <<>>)
    ELSE IF "status_message" \notin raw_response.keys THEN Raise("KeyError", <<>>)
    ELSE LET status == raw_response.status_code
             response == raw_response.status_message
         IN  IF status # expected
             THEN Raise("PushwooshFailure", <<status, response>>)
             ELSE Return(status, response)

\* json.dumps(payload) of a request envelope: the JSON document, as a structure
json_dumps(payload) ==
    [request |->
        [k \in DOMAIN payload.request |->
            IF k = "notifications"
            THEN [i \in 1..Len(payload.request[k]) |->
                     json_dict(payload.request[k][i])]
            ELSE json_scalar(payload.request[k])]]

\* Variant: the client numbers its requests, so that the body depends on the
\* calls made before
send_numbered(expected, payload, url, net) ==
    LET body == json_dumps([request |-> Put(payload.request, "request_id",
                                             IF ncalls = 0 THEN "first" ELSE "later")])
        r == _request("POST", body, url, net)
    IN  [body |-> <<body>>, conns |-> r.conns, requests |-> r.requests,
         resp |-> r.ret,
         outcome |-> IF r.exc # "none" THEN Raise(r.exc, <<>>)
                     ELSE interpret(expected, r.ret[1][2])]

\* Variant: the HTTP status returned by _request is checked before the body
send_http_checked(expected, payload, url, net) ==
    LET body == json_dumps(payload)
        r == _request("POST", body, url, net)
    IN  [body |-> <<body>>, conns |-> r.conns, requests |-> r.requests,
         resp |-> r.ret,
         outcome |-> IF r.exc # "none" THEN Raise(r.exc, <<>>)
                     ELSE IF r.ret[1][1] # 200
                     THEN Raise("PushwooshFailure", <<r.ret[1][1], "">>)
                     ELSE interpret(expected, r.ret[1][2])]

\* body = json.dumps(payload); _, raw_response = self._request('POST', body, url)
\* and the rest of the operation
send(expected, payload, url, net) ==
    LET body == json_dumps(payload)
        r == _request("POST", body, url, net)
    IN  [body |-> <<body>>, conns |-> r.conns, requests |-> r.requests,
         resp |-> r.ret,
         outcome |-> IF r.exc # "none" THEN Raise(r.exc, <<>>)
                     ELSE interpret(expected, r.ret[1][2])]

-----------------------------------------------------------------------------
(* Pushwoosh.push.  The argument is a Notification, a list of them or a    *)
(* tuple of them: [type, items], items naming the objects in objs.         *)

PushArgs ==
    [type : {"Notification"}, items : [1..1 -> 1..Len(objs)]]
    \cup [type : {"list"}, items : SeqsUpTo(1..Len(objs), MaxLen)]
    \cup [type : {"tuple"}, items : {[i \in 1..Len(objs) |-> i]}]

\* Variant: insert(0, ...) in place of append(...), which reverses the order
normalize_reversed(notifications) ==
    IF notifications.type = "list"
    THEN [i \in 1..Len(notifications.items) |->
             <<"Notification",
               notifications.items[Len(notifications.items) + 1 - i]>>]
    ELSE IF notifications.type = "Notification"
    THEN << <<"Notification", notifications.items[1]>> >>
    ELSE << <<"tuple", 0>> >>

\* if not isinstance(notifications, list): notifications = [notifications, ]
\* Each element is <<"Notification", i>> (objs[i]) or <<"tuple", 0>> (the tuple)
normalize(notifications) ==
    IF notifications.type = "list"
    THEN [i \in 1..Len(notifications.items) |->
             <<"Notification", notifications.items[i]>>]
    ELSE IF notifications.type = "Notification"
    THEN << <<"Notification", notifications.items[1]>> >>
    ELSE << <<"tuple", 0>> >>

push_call(notifications, net) ==
    LET url == BASE_URL \o "/createMessage"
        lst == normalize(notifications)
    IN  IF \E i \in 1..Len(lst) : lst[i][1] # "Notification"
        THEN \* notification.payload: a tuple has no attribute payload
             [body |-> <<>>, conns |-> 0, requests |-> <<>>, resp |-> <<>>,
              outcome |-> Raise("AttributeError", <<>>)]
        ELSE LET payload ==
                     [request |->
                         [application |-> application_id,
                          username |-> username,
                          password |-> password,
                          notifications |->
                              [i \in 1..Len(lst) |-> objs[lst[i][2]].payload]]]
             IN  send(PUSH_OK, payload, url, net)

\* Variant: push stamps every Notification it sends with send_date "now"
push_heap_stamped(notifications) ==
    [i \in 1..Len(objs) |->
        IF /\ notifications.type # "tuple"
           /\ \E j \in 1..Len(notifications.items) : notifications.items[j] = i
        THEN [payload |-> [objs[i].payload EXCEPT !.send_date = "now"]]
        ELSE objs[i]]

\* The Notification objects after push: the loop reads notification.payload
\* and json.dumps reads the envelope; neither writes to a Notification
push_heap(notifications) == objs

(* Pushwoosh.register *)

RegisterArgs ==
    [device_type : {"3"}, device_id : {"abc123"}, hw_id : {"hw-1"},
     language : {"en", "ru"}, timezone : {None, "0"}]

\* Variant: register expects the success code of push
register_call_200(a, net) ==
    LET url == BASE_URL \o "/registerDevice"
        r0 == [application |-> application_id,
               device_id |-> a.device_id,
               hw_id |-> a.hw_id,
               language |-> a.language,
               device_type |-> a.device_type]
        payload == [request |-> IF a.timezone # None
                                THEN Put(r0, "timezone", a.timezone) ELSE r0]
    IN  send(PUSH_OK, payload, url, net)

register_call(a, net) ==
    LET url == BASE_URL \o "/registerDevice"
        r0 == [application |-> application_id,
               device_id |-> a.device_id,
               hw_id |-> a.hw_id,
               language |-> a.language,
               device_type |-> a.device_type]
        payload == [request |-> IF a.timezone # None
                                THEN Put(r0, "timezone", a.timezone) ELSE r0]
    IN  send(REGISTER_OK, payload, url, net)

(* Pushwoosh.unregister *)

UnregisterArgs == [device_type : {"3"}, device_id : {"abc123"}]

\* Variant: unregister sends the credentials as push does
unregister_call_auth(a, net) ==
    LET url == BASE_URL \o "/unregisterDevice"
        payload == [request |-> [application |-> application_id,
                                 username |-> username,
                                 password |-> password,
                                 device_id |-> a.device_id,
                                 device_type |-> a.device_type]]
    IN  send(UNREGISTER_OK, payload, url, net)

unregister_call(a, net) ==
    LET url == BASE_URL \o "/unregisterDevice"
        payload == [request |-> [application |-> application_id,
                                 device_id |-> a.device_id,
                                 device_type |-> a.device_type]]
    IN  send(UNREGISTER_OK, payload, url, net)

\* One call, by the name of the operation
call(op, args, net) ==
    IF op = "push" THEN push_call(args, net)
    ELSE IF op = "register" THEN register_call(args, net)
    ELSE unregister_call(args, net)

-----------------------------------------------------------------------------
(* The state machine *)

Credentials ==
    [username : {"alice"}, password : {"s3cret"}, application_id : {"APP-1"}]

NoCall ==
    [op |-> "none", args |-> <<>>, net |-> [fail |-> "none", status |-> 0, raw |-> NoRaw],
     body |-> <<>>, conns |-> 0, requests |-> <<>>, resp |-> <<>>,
     outcome |-> Return(0, "")]

Called(op, args, net, r) ==
    [op |-> op, args |-> args, net |-> net, body |-> r.body, conns |-> r.conns,
     requests |-> r.requests, resp |-> r.resp, outcome |-> r.outcome]

\* Pushwoosh(username, password, application_id), in an interpreter that has
\* or has not loaded http.client
Init ==
    /\ \E c \in Credentials :
          /\ ctor = c
          /\ username = c.username
          /\ password = c.password
          /\ application_id = c.application_id
    /\ http_client \in BOOLEAN
    /\ objs = <<>>
    /\ built = <<>>
    /\ kwargs = NoKwargs
    /\ made = <<>>
    /\ last = NoCall
    /\ ncalls = 0

\* n = Pushwoosh.Notification(content, ...)
NewNotification ==
    /\ \E a \in NotifSamples :
          /\ \A i \in 1..Len(built) : built[i] # Notification_init(a).payload
          /\ objs' = Append(objs, Notification_init(a))
          /\ built' = Append(built, Notification_init(a).payload)
    /\ UNCHANGED <<username, password, application_id, ctor, http_client,
                   kwargs, made, last, ncalls>>

push ==
    /\ ncalls < MaxCalls
    /\ \E notifications \in PushArgs, net \in Nets :
          /\ last' = Called("push", notifications, net,
                            push_call(notifications, net))
          /\ objs' = push_heap(notifications)
    /\ ncalls' = ncalls + 1
    /\ UNCHANGED <<username, password, application_id, ctor, http_client,
                   built, kwargs, made>>

register ==
    /\ ncalls < MaxCalls
    /\ \E a \in RegisterArgs, net \in Nets :
          last' = Called("register", a, net, register_call(a, net))
    /\ ncalls' = ncalls + 1
    /\ UNCHANGED <<username, password, application_id, ctor, http_client,
                   objs, built, kwargs, made>>

unregister ==
    /\ ncalls < MaxCalls
    /\ \E a \in UnregisterArgs, net \in Nets :
          last' = Called("unregister", a, net, unregister_call(a, net))
    /\ ncalls' = ncalls + 1
    /\ UNCHANGED <<username, password, application_id, ctor, http_client,
                   objs, built, kwargs, made>>

Next == NewNotification \/ push \/ register \/ unregister

Spec == Init /\ [][Next]_vars

-----------------------------------------------------------------------------
(* The Notification builder on its own: every combination of arguments *)

InitBuilder ==
    /\ \E c \in Credentials :
          /\ ctor = c
          /\ username = c.username
          /\ password = c.password
          /\ application_id = c.application_id
    /\ http_client = TRUE
    /\ objs = <<>>
    /\ built = <<>>
    /\ kwargs \in AllKwargs
    /\ made = <<>>
    /\ last = NoCall
    /\ ncalls = 0

\* made = Pushwoosh.Notification(**kwargs)
Build ==
    /\ made = <<>>
    /\ made' = <<Notification_init(kwargs)>>
    /\ UNCHANGED <<username, password, application_id, ctor, http_client,
                   objs, built, kwargs, last, ncalls>>

NextBuilder == Build

SpecBuilder == InitBuilder /\ [][NextBuilder]_vars

-----------------------------------------------------------------------------
(* Properties *)

\* The response of the last call carries status_code and status_message
WellFormed(raw) ==
    raw.kind = "object" /\ {"status_code", "status_message"} \subseteq raw.keys

Received == last.op # "none" /\ last.resp # <<>>
LastRaw == last.resp[1][2]
LastRequest == last.body[1].request

\* C1: push and unregister, on a well-formed response (s, m), return (s, m)
\* exactly when s = 200 and otherwise raise PushwooshFailure(s, m).
C1_PushUnregisterExpect200 ==
    (Received /\ last.op \in {"push", "unregister"} /\ WellFormed(LastRaw)) =>
        LET s == LastRaw.status_code
            m == LastRaw.status_message
        IN  /\ (last.outcome.kind = "return") <=> (s = 200)
            /\ (s = 200) => last.outcome = Return(s, m)
            /\ (s # 200) => last.outcome = Raise("PushwooshFailure", <<s, m>>)

C1_Witness ==
    /\ Received /\ last.op = "push" /\ WellFormed(LastRaw)
    /\ LastRaw.status_code = 103
    /\ last.outcome = Raise("PushwooshFailure", <<103, "OK">>)

\* C2: register, on a well-formed response (s, m), returns (s, m) exactly when
\* s = 103 and otherwise, also for s = 200, raises PushwooshFailure(s, m).
C2_RegisterExpect103 ==
    (Received /\ last.op = "register" /\ WellFormed(LastRaw)) =>
        LET s == LastRaw.status_code
            m == LastRaw.status_message
        IN  /\ (last.outcome.kind = "return") <=> (s = 103)
            /\ (s = 103) => last.outcome = Return(s, m)
            /\ (s # 103) => last.outcome = Raise("PushwooshFailure", <<s, m>>)

C2_Witness ==
    /\ Received /\ last.op = "register" /\ WellFormed(LastRaw)
    /\ LastRaw.status_code = 200
    /\ last.outcome = Raise("PushwooshFailure", <<200, "OK">>)

SendsInOrder(items) ==
    /\ last.body # <<>>
    /\ Len(LastRequest.notifications) = Len(items)
    /\ \A i \in 1..Len(items) :
          LastRequest.notifications[i] = json_dict(objs[items[i]].payload)

\* C4 as stated: for any ordered sequence of N Notifications passed to push
\* (a list or a tuple), the notifications field holds exactly their N payloads
\* in order; a single Notification is sent as a sequence of one.
C4_AnySequenceInOrder ==
    (last.op = "push") => SendsInOrder(last.args.items)

\* C4 amended: for any list of N Notifications passed to push, the
\* notifications field holds exactly their N payloads in order; a single
\* Notification is sent as a sequence of one.
C4_ListInOrder ==
    (last.op = "push" /\ last.args.type \in {"list", "Notification"}) =>
        SendsInOrder(last.args.items)

C4_Witness ==
    /\ last.op = "push" /\ last.args.type = "list"
    /\ Len(last.args.items) = 2
    /\ last.args.items[1] = 2 /\ last.args.items[2] = 1
    /\ last.body # <<>>
    /\ LastRequest.notifications[1] # LastRequest.notifications[2]
    /\ LastRequest.notifications[2].content = "hello"

\* C5: the payload of a Notification holds content, send_date ("now" when not
\* supplied) and exactly the optional parameters that were supplied, each with
\* its supplied value, also a falsy one; with content alone it is
\* {send_date: "now", content: content}.
C5_PayloadKeys ==
    (made # <<>>) =>
        LET p == made[1].payload
            supplied == {k \in OptionalParams : kwargs[k] # None}
        IN  /\ DOMAIN p = {"content", "send_date"} \cup supplied
            /\ p.content = kwargs.content
            /\ \A k \in supplied : p[k] = kwargs[k]
            /\ ("send_date" \notin supplied) => p.send_date = "now"
            /\ (supplied = {}) =>
                  p = [send_date |-> "now", content |-> kwargs.content]

C5_Witness ==
    /\ made # <<>>
    /\ kwargs.devices = "[]" /\ kwargs.ios_badges = "0" /\ kwargs.ios_sound = ""
    /\ \A k \in OptionalParams \ {"devices", "ios_badges", "ios_sound"} :
          kwargs[k] = None
    /\ made[1].payload =
          [send_date |-> "now", content |-> kwargs.content, devices |-> "[]",
           ios_badges |-> "0", ios_sound |-> ""]

\* C6: the payload of every Notification equals its payload at construction
\* after any calls, and every push that sends a Notification sends that payload.
C6_PayloadFixed ==
    /\ Len(objs) = Len(built)
    /\ \A i \in 1..Len(objs) : objs[i].payload = built[i]
    /\ (last.op = "push" /\ last.body # <<>>) =>
          /\ Len(LastRequest.notifications) = Len(last.args.items)
          /\ \A i \in 1..Len(last.args.items) :
                LastRequest.notifications[i] = json_dict(built[last.args.items[i]])

C6_Witness ==
    /\ ncalls >= 2
    /\ last.op = "push" /\ last.body # <<>> /\ last.args.items # <<>>
    /\ last.outcome.kind = "raise"
    /\ objs[last.args.items[1]].payload = built[last.args.items[1]]

\* C7: a response whose body is not JSON, or is JSON without status_code or
\* status_message, ends the call with a parse error: never with a result,
\* a PushwooshFailure or another error.
C7_MalformedIsParseError ==
    (Received /\ ~WellFormed(LastRaw)) =>
        /\ last.outcome.kind = "raise"
        /\ last.outcome.exc \in ParseErrors

C7_Witness ==
    /\ Received /\ last.op = "register"
    /\ LastRaw.kind = "object" /\ LastRaw.keys = {"status_code"}
    /\ last.outcome = Raise("KeyError", <<>>)

\* C8 as stated: every call opens exactly one connection and makes exactly
\* one request attempt; a network failure ends it with the transport error,
\* and PushwooshFailure is raised only after a response was received.
C8_ExactlyOneRequest ==
    (last.op # "none") =>
        /\ last.conns = 1
        /\ Len(last.requests) = 1
        /\ (last.net.fail # "none") =>
              (last.outcome.kind = "raise" /\ last.outcome.exc \in TransportErrors)
        /\ (last.outcome.exc = "PushwooshFailure") => last.resp # <<>>

\* C9: the credentials stay what the constructor was given through every
\* call, and a call repeated with the same arguments, on the same objects
\* and with the same response, has the same request body and outcome.
C9_Stateless ==
    [][ /\ username' = ctor.username
        /\ password' = ctor.password
        /\ application_id' = ctor.application_id
        /\ ctor' = ctor
        /\ (/\ ncalls' # ncalls
            /\ last.op # "none"
            /\ last'.op = last.op
            /\ last'.args = last.args
            /\ last'.net = last.net
            /\ objs' = objs) =>
              (last'.body = last.body /\ last'.outcome = last.outcome)
      ]_vars

C9_Witness ==
    /\ ncalls >= 2
    /\ last.op = "register"
    /\ last.outcome.exc = "PushwooshFailure"
    /\ username = ctor.username /\ password = ctor.password
    /\ application_id = ctor.application_id

\* The success code of each operation, as the documentation states it
Expected(op) == IF op = "register" THEN 103 ELSE 200

\* C10: the outcome of a call is the same under every HTTP status with the
\* same body: an HTTP error with the expected status_code in the body is a
\* success, an HTTP 200 with another status_code is a PushwooshFailure.
C10_HttpStatusIgnored ==
    Received =>
        /\ \A h \in HttpStatuses :
              call(last.op, last.args, [last.net EXCEPT !.status = h]).outcome
                  = last.outcome
        /\ WellFormed(LastRaw) =>
              /\ (LastRaw.status_code = Expected(last.op)) =>
                    last.outcome.kind = "return"
              /\ (LastRaw.status_code # Expected(last.op)) =>
                    last.outcome.exc = "PushwooshFailure"

C10_Witness ==
    /\ Received /\ last.op = "register"
    /\ last.net.status = 500
    /\ last.outcome = Return(103, "OK")

====
